---- MODULE Spec2Model ----
(***************************************************************************)
(* Model of the APEX trading engines of this repository.                   *)
(*                                                                         *)
(*   timed variant    : src/unnamed/part_000 (ApexOmniGovernor, 2 s loop)  *)
(*   reactive variant : src/server.js (cluster workers, WebSocket trigger) *)
(*                                                                         *)
(* Monetary amounts are JavaScript BigInts: they are modelled as           *)
(* arbitrary-precision naturals (little-endian limbs).  Trust weights are  *)
(* JavaScript Numbers: they are modelled in fixed point, rounding every    *)
(* product to the nearest representable value.                             *)
(***************************************************************************)
EXTENDS Integers, Sequences, FiniteSets, TLC

VARIABLES
    variant,      \* "timed" | "reactive" | "none": which program is running
    trustScores,  \* engine -> (source -> weight): AIEngine.trustScores
    trustFile,    \* trust_scores.json: [exists, text]
    updates,      \* number of updateTrust calls made so far
    lastUpdate,   \* the last updateTrust call: [engine, source, success, before]
    gridIn,       \* input of the grid planner / selector under SpecGrid
    gridOut,      \* what the planner / selector computed from gridIn
    runPc,        \* position of ApexOmniGovernor.run
    cycle,        \* number of the current iteration of run's while loop
    siteIdx,      \* next AI_SITES entry analyzeWebIntelligence fetches
    signals,      \* the signals array being built / returned
    wallets,      \* networks whose wallet and contract the constructor set up
    tasks,        \* task id -> state of one scanGrid call (its locals)
    sent,         \* transactions broadcast in the current cycle
    workers,      \* network -> the worker process the primary forked for it
    ACTIVE_AI_SIGNALS, \* the latest-signals snapshot of a worker process
    scan,         \* the background Brain.scan() of a worker: its locals
    strikes       \* trigger number -> one run of the stream's message handler

vars == <<variant, trustScores, trustFile, updates, lastUpdate, gridIn,
          gridOut, runPc, cycle, siteIdx, signals, wallets, tasks, sent,
          workers, ACTIVE_AI_SIGNALS, scan, strikes>>

ledgerVars == <<trustScores, trustFile, updates, lastUpdate>>
gridVars == <<gridIn, gridOut>>
runVars == <<runPc, cycle, siteIdx, signals, wallets, tasks, sent>>
reactiveVars == <<workers, ACTIVE_AI_SIGNALS, scan, strikes>>

-----------------------------------------------------------------------------
(* BigInt: a natural number as its limbs, least significant first, with no *)
(* leading zero limb (zero is the empty sequence).                         *)

Base == 10 ^ 4

RECURSIVE Strip(_)
Strip(a) ==
    IF a = <<>> THEN <<>>
    ELSE IF a[Len(a)] = 0 THEN Strip(SubSeq(a, 1, Len(a) - 1))
    ELSE a

RECURSIVE BigOf(_)
BigOf(n) == IF n = 0 THEN <<>> ELSE <<n % Base>> \o BigOf(n \div Base)

Limb(a, i) == IF i <= Len(a) THEN a[i] ELSE 0

RECURSIVE LtFrom(_, _, _)
LtFrom(a, b, i) ==
    IF i = 0 THEN FALSE
    ELSE IF a[i] # b[i] THEN a[i] < b[i]
    ELSE LtFrom(a, b, i - 1)

\* a < b
BigLt(a, b) ==
    IF Len(a) # Len(b) THEN Len(a) < Len(b) ELSE LtFrom(a, b, Len(a))

BigLe(a, b) == ~BigLt(b, a)

RECURSIVE SubFrom(_, _, _, _)
SubFrom(a, b, i, borrow) ==
    IF i > Len(a) THEN <<>>
    ELSE LET d == a[i] - Limb(b, i) - borrow
         IN  IF d < 0 THEN <<d + Base>> \o SubFrom(a, b, i + 1, 1)
             ELSE <<d>> \o SubFrom(a, b, i + 1, 0)

\* a - b, for b <= a
BigSub(a, b) == Strip(SubFrom(a, b, 1, 0))

RECURSIVE AddFrom(_, _, _, _)
AddFrom(a, b, i, carry) ==
    IF i > Len(a) /\ i > Len(b) THEN BigOf(carry)
    ELSE LET t == Limb(a, i) + Limb(b, i) + carry
         IN  <<t % Base>> \o AddFrom(a, b, i + 1, t \div Base)

\* a + b
BigAdd(a, b) == Strip(AddFrom(a, b, 1, 0))

RECURSIVE MulFrom(_, _, _, _)
MulFrom(a, m, i, carry) ==
    IF i > Len(a) THEN BigOf(carry)
    ELSE LET p == a[i] * m + carry
         IN  <<p % Base>> \o MulFrom(a, m, i + 1, p \div Base)

\* a * m, for a small natural m
BigMulSmall(a, m) == Strip(MulFrom(a, m, 1, 0))

RECURSIVE DivFrom(_, _, _, _)
DivFrom(a, d, i, rem) ==
    IF i = 0 THEN <<>>
    ELSE LET cur == rem * Base + a[i]
         IN  DivFrom(a, d, i - 1, cur % d) \o <<cur \div d>>

\* a / d truncated, for a small positive d (BigInt division truncates)
BigDivSmall(a, d) == Strip(DivFrom(a, d, Len(a), 0))

RECURSIVE BigMulPow10(_, _)
BigMulPow10(a, k) == IF k = 0 THEN a ELSE BigMulPow10(BigMulSmall(a, 10), k - 1)

\* ethers.parseEther("0.<digits>"): mantissa * 10^(18 - decimals) wei
parseEther(mantissa, decimals) == BigMulPow10(BigOf(mantissa), 18 - decimals)

-----------------------------------------------------------------------------
(* Number: trust weights in fixed point, Precision decimal digits.         *)

Precision == 6
Scale == 10 ^ Precision

\* the literal n/d as a weight
Num(n, d) == (n * Scale) \div d

\* the product c * (n/d), rounded to the nearest weight
NumMul(c, n, d) == (c * n * 2 + d) \div (2 * d)

Min(a, b) == IF a < b THEN a ELSE b
Max(a, b) == IF a > b THEN a ELSE b

-----------------------------------------------------------------------------
(* The trust ledger (AIEngine).                                            *)

Sources == {"WEB_AI", "DISCOVERY"}

\* keys in a fixed order, for the text of the file
SourceOrder == <<"WEB_AI", "DISCOVERY">>

TimedDefaultTrust ==
    [s \in {"WEB_AI", "DISCOVERY"} |->
        IF s = "WEB_AI" THEN Num(85, 100) ELSE Num(70, 100)]

ReactiveDefaultTrust == [s \in {"WEB_AI"} |-> Num(85, 100)]

DefaultTrust(v) == IF v = "timed" THEN TimedDefaultTrust ELSE ReactiveDefaultTrust

\* a weight as the decimal digits JSON.stringify prints after "0."
ToDigits(w) == [i \in 1..Precision |-> (w \div (10 ^ (Precision - i))) % 10]

RECURSIVE FromDigits(_)
FromDigits(ds) ==
    IF ds = <<>> THEN 0
    ELSE FromDigits(SubSeq(ds, 1, Len(ds) - 1)) * 10 + ds[Len(ds)]

RECURSIVE StringifyFrom(_, _)
StringifyFrom(m, i) ==
    IF i > Len(SourceOrder) THEN <<>>
    ELSE (IF SourceOrder[i] \in DOMAIN m
          THEN <<[k |-> SourceOrder[i], v |-> ToDigits(m[SourceOrder[i]])]>>
          ELSE <<>>) \o StringifyFrom(m, i + 1)

\* JSON.stringify(this.trustScores): one "key": digits entry per source
JSONstringify(m) == StringifyFrom(m, 1)

\* a text JSON.parse accepts: every entry has all its digits
WellFormed(text) == \A i \in 1..Len(text) : Len(text[i].v) = Precision

JSONparse(text) ==
    [s \in {text[i].k : i \in 1..Len(text)} |->
        FromDigits(text[CHOOSE i \in 1..Len(text) : text[i].k = s].v)]

NoFile == [exists |-> FALSE, text |-> <<>>]

FileOf(m) == [exists |-> TRUE, text |-> JSONstringify(m)]

\* a file cut short in the middle of its first value: JSON.parse throws on it
CorruptFile == [exists |-> TRUE, text |-> <<[k |-> "WEB_AI", v |-> <<8>>]>>]

\* AIEngine.loadTrust of variant v, reading file f
loadTrust(v, f) ==
    IF f.exists
    THEN IF WellFormed(f.text) THEN JSONparse(f.text) ELSE DefaultTrust(v)
    ELSE DefaultTrust(v)

\* this.trustScores[sourceName] || 0.5
Current(m, source) ==
    IF source \in DOMAIN m /\ m[source] # 0 THEN m[source] ELSE Num(5, 10)

NewWeightUnclamped(current, success) ==
    IF success THEN NumMul(current, 105, 100) ELSE NumMul(current, 90, 100)

NewWeightSwapped(current, success) ==
    IF success
    THEN Max(Num(1, 10), NumMul(current, 90, 100))
    ELSE Min(Num(99, 100), NumMul(current, 105, 100))

\* success ? Math.min(0.99, current * 1.05) : Math.max(0.1, current * 0.90)
NewWeight(current, success) ==
    IF success
    THEN Min(Num(99, 100), NumMul(current, 105, 100))
    ELSE Max(Num(1, 10), NumMul(current, 90, 100))

Put(m, k, val) == [x \in DOMAIN m \cup {k} |-> IF x = k THEN val ELSE m[x]]

updateTrustWritesEntry(e, source, success) ==
    LET current == Current(trustScores[e], source)
        scores == Put(trustScores[e], source, NewWeight(current, success))
    IN  /\ trustScores' = [trustScores EXCEPT ![e] = scores]
        /\ trustFile' = FileOf([s \in {source} |-> scores[s]])
        /\ updates' = updates + 1
        /\ lastUpdate' = [engine |-> e, source |-> source,
                          success |-> success, before |-> current]

\* AIEngine.updateTrust(sourceName, success) of engine e
updateTrust(e, source, success) ==
    LET current == Current(trustScores[e], source)
        scores == Put(trustScores[e], source, NewWeight(current, success))
    IN  /\ trustScores' = [trustScores EXCEPT ![e] = scores]
        /\ trustFile' = FileOf(scores)
        /\ updates' = updates + 1
        /\ lastUpdate' = [engine |-> e, source |-> source,
                          success |-> success, before |-> current]

NoUpdate == [engine |-> "", source |-> "", success |-> FALSE, before |-> 0]

-----------------------------------------------------------------------------
(* The grid planner and the selector (ApexOmniGovernor.scanGrid).          *)

\* MIN_GAS_RESERVE = ethers.parseEther("0.002")
MIN_GAS_RESERVE == parseEther(2, 3)

gridPoints ==
    << [percent |-> 10,    label |-> "MICRO (10%)",    isFlash |-> FALSE],
       [percent |-> 25,    label |-> "SMALL (25%)",    isFlash |-> FALSE],
       [percent |-> 50,    label |-> "MID (50%)",      isFlash |-> FALSE],
       [percent |-> 75,    label |-> "LARGE (75%)",    isFlash |-> FALSE],
       [percent |-> 100,   label |-> "MAX (100%)",     isFlash |-> FALSE],
       [percent |-> 1000,  label |-> "LEVERAGE (10x)", isFlash |-> TRUE],
       [percent |-> 10000, label |-> "WHALE (100x)",   isFlash |-> TRUE] >>

TierIds == 1..Len(gridPoints)

\* const safeCapital = balance - MIN_GAS_RESERVE
SafeCapital(balance) == BigSub(balance, MIN_GAS_RESERVE)

TierAmountDiv10(safeCapital, percent) ==
    BigDivSmall(BigMulSmall(safeCapital, percent), 10)

TierAmountRoundUp(safeCapital, percent) ==
    BigDivSmall(BigAdd(BigMulSmall(safeCapital, percent), BigOf(99)), 100)

\* (safeCapital * p.percent) / 100n
TierAmount(safeCapital, percent) ==
    BigDivSmall(BigMulSmall(safeCapital, percent), 100)

\* const tiers = gridPoints.map(p => ({label, amount, isFlash}))
Tiers(safeCapital) ==
    [i \in TierIds |->
        [label |-> gridPoints[i].label,
         amount |-> TierAmount(safeCapital, gridPoints[i].percent),
         isFlash |-> gridPoints[i].isFlash]]

\* const txValue = tier.isFlash ? 0n : tier.amount
TxValue(tier) == IF tier.isFlash THEN <<>> ELSE tier.amount

cmpAscending(a, b) == IF BigLt(b.amount, a.amount) THEN 1 ELSE -1

\* (a, b) => (a.amount < b.amount) ? 1 : -1
cmp(a, b) == IF BigLt(a.amount, b.amount) THEN 1 ELSE -1

(* Array.prototype.sort of the runtime the image pins (Node 18: V8's       *)
(* TimSort).  The comparator never answers 0, so the order of tiers with   *)
(* equal amounts is whatever this algorithm makes of it.  An array of at   *)
(* most seven elements is one run: the leading run is counted (and         *)
(* reversed when it descends), the rest is inserted by binary search.      *)

RECURSIVE RunEnd(_, _, _)
RunEnd(arr, descending, idx) ==
    IF idx > Len(arr) THEN idx - 1
    ELSE LET order == cmp(arr[idx], arr[idx - 1])
         IN  IF (descending /\ order >= 0) \/ (~descending /\ order < 0)
             THEN idx - 1
             ELSE RunEnd(arr, descending, idx + 1)

ReversePrefix(arr, n) ==
    [i \in 1..Len(arr) |-> IF i <= n THEN arr[n + 1 - i] ELSE arr[i]]

\* CountAndMakeRun: <<array, length of the leading run>>
CountAndMakeRun(arr) ==
    IF Len(arr) < 2 THEN <<arr, Len(arr)>>
    ELSE LET descending == cmp(arr[2], arr[1]) < 0
             n == RunEnd(arr, descending, 3)
         IN  <<IF descending THEN ReversePrefix(arr, n) ELSE arr, n>>

\* the insertion point of pivot in arr[left+1 .. right] (0-based bounds)
RECURSIVE BinarySearch(_, _, _, _)
BinarySearch(arr, pivot, left, right) ==
    IF left >= right THEN left
    ELSE LET mid == left + ((right - left) \div 2)
         IN  IF cmp(pivot, arr[mid + 1]) < 0
             THEN BinarySearch(arr, pivot, left, mid)
             ELSE BinarySearch(arr, pivot, mid + 1, right)

\* arr[start] (0-based) moved to position left, the elements between shifted
InsertAt(arr, start, left) ==
    [i \in 1..Len(arr) |->
        IF i - 1 < left \/ i - 1 > start THEN arr[i]
        ELSE IF i - 1 = left THEN arr[start + 1]
        ELSE arr[i - 1]]

RECURSIVE BinaryInsertionSort(_, _)
BinaryInsertionSort(arr, start) ==
    IF start >= Len(arr) THEN arr
    ELSE BinaryInsertionSort(
            InsertAt(arr, start, BinarySearch(arr, arr[start + 1], 0, start)),
            start + 1)

ArraySort(arr) ==
    IF Len(arr) < 2 THEN arr
    ELSE LET run == CountAndMakeRun(arr)
         IN  BinaryInsertionSort(run[1], run[2])

\* simulations.filter(r => r.status === 'fulfilled').map(r => r.value)
RECURSIVE Fulfilled(_, _, _)
Fulfilled(tiers, probes, i) ==
    IF i > Len(probes) THEN <<>>
    ELSE (IF probes[i] = "fulfilled" THEN <<tiers[i]>> ELSE <<>>)
            \o Fulfilled(tiers, probes, i + 1)

\* const validTiers = simulations.filter(...).map(...).sort(...)
ValidTiers(tiers, probes) == ArraySort(Fulfilled(tiers, probes, 1))

NoTier == [label |-> "", amount |-> <<>>, isFlash |-> FALSE]

BestTradeOrMicro(tiers, probes) ==
    LET validTiers == ValidTiers(tiers, probes)
    IN  IF Len(validTiers) > 0 THEN validTiers[1] ELSE tiers[1]

\* validTiers.length > 0 ? validTiers[0] : nothing
BestTrade(tiers, probes) ==
    LET validTiers == ValidTiers(tiers, probes)
    IN  IF Len(validTiers) > 0 THEN validTiers[1] ELSE NoTier

-----------------------------------------------------------------------------
(* SpecLedger: the ledger alone, driven by arbitrary updateTrust calls and *)
(* by engines being constructed again on the file the program left.        *)

MaxUpdates == 6

Engines(v) == IF v = "timed" THEN {"GOVERNOR"} ELSE {"ETHEREUM", "BASE"}

\* files left by earlier runs of the program: the weights the update rule
\* settles on after repeated failures (0.1) and repeated successes (0.99)
EarlierFiles ==
    { FileOf([s \in Sources |-> IF s = "WEB_AI" THEN Num(1, 10) ELSE Num(99, 100)]),
      FileOf([s \in {"DISCOVERY"} |-> Num(1, 10)]) }

IdleGrid == [balance |-> <<>>, oks |-> {}]

\* no worker process: the reactive variant is not running
NoScan == [pc |-> "idle", siteIdx |-> 0, signals |-> <<>>, done |-> 0, last |-> <<>>]
IdleReactive ==
    /\ workers = <<>>
    /\ ACTIVE_AI_SIGNALS = <<>>
    /\ scan = NoScan
    /\ strikes = <<>>

IdleRun ==
    /\ runPc = "off"
    /\ cycle = 0
    /\ siteIdx = 0
    /\ signals = <<>>
    /\ wallets = {}
    /\ tasks = <<>>
    /\ sent = {}

InitLedger ==
    /\ variant \in {"timed", "reactive"}
    /\ trustFile \in {NoFile, CorruptFile} \cup EarlierFiles
    /\ trustScores = [e \in Engines(variant) |-> loadTrust(variant, trustFile)]
    /\ updates = 0
    /\ lastUpdate = NoUpdate
    /\ gridIn = IdleGrid
    /\ gridOut = <<>>
    /\ IdleRun
    /\ IdleReactive

LedgerUpdate(e, source, success) ==
    /\ updates < MaxUpdates
    /\ updateTrust(e, source, success)
    /\ UNCHANGED <<variant, reactiveVars, gridVars, runVars>>

\* new AIEngine(): a worker process starts again and loads the file
LedgerRestart(e) ==
    /\ trustScores' = [trustScores EXCEPT ![e] = loadTrust(variant, trustFile)]
    /\ UNCHANGED <<variant, reactiveVars,
                   trustFile, updates, lastUpdate, gridVars, runVars>>

NextLedger ==
    \/ \E e \in DOMAIN trustScores, s \in Sources, ok \in BOOLEAN :
          LedgerUpdate(e, s, ok)
    \/ \E e \in DOMAIN trustScores : LedgerRestart(e)

SpecLedger == InitLedger /\ [][NextLedger]_vars

-----------------------------------------------------------------------------
(* SpecGrid: the planner and the selector as functions of one balance and  *)
(* one set of probe outcomes.                                              *)

\* capital above the reserve, in wei: nothing, a few wei (where truncation
\* shows), the capital of the design's worked example, and one ether
GridCapitals ==
    { BigOf(0), BigOf(1), BigOf(3), BigOf(7), BigOf(10), BigOf(99), BigOf(101),
      BigOf(998000000), parseEther(1, 0) }

ProbesOf(oks) == [i \in TierIds |-> IF i \in oks THEN "fulfilled" ELSE "rejected"]

InitGrid ==
    /\ variant = "timed"
    /\ trustFile = NoFile
    /\ trustScores = [e \in Engines("timed") |-> loadTrust("timed", NoFile)]
    /\ updates = 0
    /\ lastUpdate = NoUpdate
    /\ \E c \in GridCapitals, oks \in SUBSET TierIds :
          gridIn = [balance |-> BigAdd(MIN_GAS_RESERVE, c), oks |-> oks]
    /\ gridOut = <<>>
    /\ IdleRun
    /\ IdleReactive

\* steps 2 and 3 of scanGrid: the tiers of the balance
PlanGrid ==
    /\ gridOut = <<>>
    /\ gridOut' = [safeCapital |-> SafeCapital(gridIn.balance),
                   tiers |-> Tiers(SafeCapital(gridIn.balance)),
                   selected |-> FALSE,
                   bestTrade |-> NoTier]
    /\ UNCHANGED <<variant, reactiveVars, ledgerVars, gridIn, runVars>>

\* step 5 of scanGrid: the winner among the tiers whose probe was fulfilled
SelectTier ==
    /\ gridOut # <<>>
    /\ ~gridOut.selected
    /\ gridOut' = [gridOut EXCEPT
                      !.selected = TRUE,
                      !.bestTrade = BestTrade(gridOut.tiers, ProbesOf(gridIn.oks))]
    /\ UNCHANGED <<variant, reactiveVars, ledgerVars, gridIn, runVars>>

NextGrid == PlanGrid \/ SelectTier

SpecGrid == InitGrid /\ [][NextGrid]_vars

-----------------------------------------------------------------------------
(* The timed variant: ApexOmniGovernor (src/unnamed/part_000).             *)

\* Object.keys(NETWORKS), in the order the table lists them
NETWORKS == <<"ETHEREUM", "BASE", "ARBITRUM", "POLYGON">>

NetworkNames == {NETWORKS[i] : i \in 1..Len(NETWORKS)}

AI_SITES == <<"api.crypto-ai-signals.com/v1/latest", "top-trading-ai-blog.com/alerts">>

\* analysis.comparative > 0.1, the score in hundredths
SentimentThreshold == 10

\* tickers && analysis.comparative > 0.1
Accepted(resp) == Len(resp.tickers) > 0 /\ resp.comparative > SentimentThreshold

\* analyzeWebIntelligence's loop body for one fetched text: the first ticker
\* of an accepted text is pushed, whatever the array already holds
AnalyzedSignals(sigs, resp) ==
    IF Accepted(resp)
    THEN Append(sigs, [ticker |-> resp.tickers[1], sentiment |-> resp.comparative])
    ELSE sigs

ScanTargetsAndDefault(sigs) == [i \in 1..Len(sigs) |-> sigs[i].ticker] \o <<"USDC">>

\* run's inner loop: the tickers scanned on each network in one cycle
ScanTargets(sigs) ==
    IF Len(sigs) > 0 THEN [i \in 1..Len(sigs) |-> sigs[i].ticker] ELSE <<"USDC">>

NoProbes == [i \in TierIds |-> "none"]

\* scanGrid(networkName, ticker) up to its first await
NewTask(net, ticker) ==
    [net |-> net, ticker |-> ticker, source |-> "WEB_AI",
     pc |-> IF net \in wallets THEN "getBalance" ELSE "done",
     balance |-> <<>>, tiers |-> <<>>, probes |-> NoProbes,
     bestTrade |-> NoTier, txs |-> 0]

StartTasksOnWallets(sigs) ==
    [t \in wallets \X (1..Len(ScanTargets(sigs))) |->
        NewTask(t[1], ScanTargets(sigs)[t[2]])]

\* tasks.push(this.scanGrid(net, ...)) for every network and target
StartTasks(sigs) ==
    [t \in NetworkNames \X (1..Len(ScanTargets(sigs))) |->
        NewTask(t[1], ScanTargets(sigs)[t[2]])]

\* await provider.getBalance(...) answers b
ScanReturnsBalance(t, b) ==
    /\ tasks[t].pc = "getBalance"
    /\ tasks' = [tasks EXCEPT ![t] =
          IF BigLt(b, MIN_GAS_RESERVE)
          THEN [@ EXCEPT !.pc = "done", !.balance = b]
          ELSE [@ EXCEPT !.pc = "probing", !.balance = b,
                         !.tiers = Tiers(SafeCapital(b)),
                         !.probes = [i \in TierIds |-> "pending"]]]
    /\ UNCHANGED <<variant, reactiveVars,
                   ledgerVars, gridVars, runPc, cycle, siteIdx,
                   signals, wallets, sent>>

\* provider.getBalance rejects: scanGrid's catch swallows it
ScanBalanceFails(t) ==
    /\ tasks[t].pc = "getBalance"
    /\ tasks' = [tasks EXCEPT ![t].pc = "done"]
    /\ UNCHANGED <<variant, reactiveVars,
                   ledgerVars, gridVars, runPc, cycle, siteIdx,
                   signals, wallets, sent>>

JoinedAtFirstRejection(probes) ==
    \/ \E i \in TierIds : probes[i] = "rejected"
    \/ \A i \in TierIds : probes[i] = "fulfilled"

\* Promise.allSettled(...) resolves: no probe is pending any more
Joined(probes) == \A i \in TierIds : probes[i] \in {"fulfilled", "rejected"}

\* the task after its probes became `probes`: once the join resolves, step 5
\* runs and executeTrade is entered up to its first await
AfterProbes(task, probes) ==
    IF task.pc = "probing" /\ Joined(probes)
    THEN LET best == BestTrade(task.tiers, probes)
         IN  IF best # NoTier
             THEN [task EXCEPT !.probes = probes, !.bestTrade = best,
                               !.pc = "sending"]
             ELSE [task EXCEPT !.probes = probes, !.pc = "done"]
    ELSE [task EXCEPT !.probes = probes]

\* one estimateGas call settles
ProbeSettles(t, i, ok) ==
    /\ tasks[t].probes[i] = "pending"
    /\ tasks' = [tasks EXCEPT ![t] =
          AfterProbes(@, [@.probes EXCEPT ![i] =
                             IF ok THEN "fulfilled" ELSE "rejected"])]
    /\ UNCHANGED <<variant, reactiveVars,
                   ledgerVars, gridVars, runPc, cycle, siteIdx,
                   signals, wallets, sent>>

\* the provider answers the seven calls of one scan in one batch
ProbeBatch(t, oks) ==
    /\ tasks[t].pc = "probing"
    /\ \A i \in TierIds : tasks[t].probes[i] = "pending"
    /\ tasks' = [tasks EXCEPT ![t] = AfterProbes(@, ProbesOf(oks))]
    /\ UNCHANGED <<variant, reactiveVars,
                   ledgerVars, gridVars, runPc, cycle, siteIdx,
                   signals, wallets, sent>>

\* the transaction one contract.executeComplexPath(...) call broadcasts
Transaction(t) ==
    [cycle |-> cycle, net |-> tasks[t].net, task |-> t[2],
     ticker |-> tasks[t].ticker, n |-> tasks[t].txs + 1,
     amount |-> tasks[t].bestTrade.amount,
     value |-> TxValue(tasks[t].bestTrade)]

\* executeTrade: contract.executeComplexPath(...) resolves with the sent tx
TradeSent(t) ==
    /\ tasks[t].pc = "sending"
    /\ sent' = sent \cup {Transaction(t)}
    /\ tasks' = [tasks EXCEPT ![t].pc = "waiting", ![t].txs = @ + 1]
    /\ UNCHANGED <<variant, reactiveVars,
                   ledgerVars, gridVars, runPc, cycle, siteIdx,
                   signals, wallets>>

\* executeTrade: the call rejects (nothing was sent): catch penalizes
TradeSendFails(t) ==
    /\ tasks[t].pc = "sending"
    /\ updateTrust("GOVERNOR", tasks[t].source, FALSE)
    /\ tasks' = [tasks EXCEPT ![t].pc = "done"]
    /\ UNCHANGED <<variant, reactiveVars,
                   gridVars, runPc, cycle, siteIdx, signals,
                   wallets, sent>>

\* executeTrade: tx.wait() resolves with a receipt of status 1 or 0, or
\* rejects (catch)
TradeSettles(t, outcome) ==
    /\ tasks[t].pc = "waiting"
    /\ updateTrust("GOVERNOR", tasks[t].source, outcome = "status1")
    /\ tasks' = [tasks EXCEPT ![t].pc = "done"]
    /\ UNCHANGED <<variant, reactiveVars,
                   gridVars, runPc, cycle, siteIdx, signals,
                   wallets, sent>>

WaitOutcomes == {"status1", "status0", "rejected"}

\* analyzeWebIntelligence: the fetch of AI_SITES[siteIdx] ended with signals
\* sigs; after the last site run starts one scanGrid per network and target
AfterSite(sigs) ==
    /\ signals' = sigs
    /\ IF siteIdx < Len(AI_SITES)
       THEN /\ siteIdx' = siteIdx + 1
            /\ UNCHANGED <<runPc, tasks>>
       ELSE /\ siteIdx' = 0
            /\ runPc' = "scanning"
            /\ tasks' = StartTasks(sigs)
    /\ UNCHANGED <<variant, reactiveVars,
                   ledgerVars, gridVars, cycle, wallets, sent>>

\* axios.get resolves with a text
SiteResponds(resp) ==
    /\ runPc = "fetch"
    /\ AfterSite(AnalyzedSignals(signals, resp))

\* axios.get rejects or times out: catch, continue
SiteFails ==
    /\ runPc = "fetch"
    /\ AfterSite(signals)

\* await Promise.allSettled(tasks) resolves; the 2 s timer is set
RunTasksSettled ==
    /\ runPc = "scanning"
    /\ \A t \in DOMAIN tasks : tasks[t].pc = "done"
    /\ runPc' = "sleep"
    /\ UNCHANGED <<variant, reactiveVars,
                   ledgerVars, gridVars, cycle, siteIdx, signals,
                   wallets, tasks, sent>>

MaxCycles == 2

\* the timer fires: the next iteration of while (true)
RunTimer ==
    /\ runPc = "sleep"
    /\ cycle < MaxCycles
    /\ cycle' = cycle + 1
    /\ runPc' = "fetch"
    /\ siteIdx' = 1
    /\ signals' = <<>>
    /\ tasks' = <<>>
    /\ sent' = {}
    /\ UNCHANGED <<variant, reactiveVars, ledgerVars, gridVars, wallets>>

-----------------------------------------------------------------------------
(* Spec: the governor's loop with one network set up.  The provider        *)
(* answers the probes of a scan in one batch, with one of ProbeScenarios.  *)

\* networks on which the constructor's try block succeeded
WalletConfigs == {{"ETHEREUM"}}

SiteResponses ==
    { [tickers |-> <<"PEPE">>, comparative |-> 30],
      [tickers |-> <<"DOGE", "PEPE">>, comparative |-> 30],
      [tickers |-> <<"PEPE">>, comparative |-> 10],
      [tickers |-> <<>>, comparative |-> 30] }

RunBalances ==
    {BigSub(MIN_GAS_RESERVE, BigOf(1)), MIN_GAS_RESERVE, parseEther(1, 0)}

ProbeScenarios == {{}, {1, 3}, {2, 6}}

Init ==
    /\ variant = "timed"
    /\ trustFile = NoFile
    /\ trustScores = [e \in Engines("timed") |-> loadTrust("timed", NoFile)]
    /\ updates = 0
    /\ lastUpdate = NoUpdate
    /\ gridIn = IdleGrid
    /\ gridOut = <<>>
    /\ runPc = "fetch"
    /\ cycle = 1
    /\ siteIdx = 1
    /\ signals = <<>>
    /\ wallets \in WalletConfigs
    /\ tasks = <<>>
    /\ sent = {}
    /\ IdleReactive

Next ==
    \/ \E resp \in SiteResponses : SiteResponds(resp)
    \/ SiteFails
    \/ \E t \in DOMAIN tasks, b \in RunBalances : ScanReturnsBalance(t, b)
    \/ \E t \in DOMAIN tasks : ScanBalanceFails(t)
    \/ \E t \in DOMAIN tasks, oks \in ProbeScenarios : ProbeBatch(t, oks)
    \/ \E t \in DOMAIN tasks : TradeSent(t)
    \/ \E t \in DOMAIN tasks : TradeSendFails(t)
    \/ \E t \in DOMAIN tasks, o \in WaitOutcomes : TradeSettles(t, o)
    \/ RunTasksSettled
    \/ RunTimer

Spec == Init /\ [][Next]_vars

-----------------------------------------------------------------------------
(* SpecIsolation: the governor's loop with two networks set up, in cycles  *)
(* that find no signal.  Every pending call is eventually answered, except *)
(* that on one network the confirmation of a sent transaction may never    *)
(* come: tx.wait() has no timeout.                                         *)

\* the network whose confirmations may stay out
Stalling == "ETHEREUM"

\* texts the sentiment analysis does not accept
IsolationResponses == {[tickers |-> <<"PEPE">>, comparative |-> 10]}

IsolationBalances == {BigSub(MIN_GAS_RESERVE, BigOf(1)), parseEther(1, 0)}

IsolationScenarios == {{}, {1, 3}}

InitIsolation ==
    /\ variant = "timed"
    /\ trustFile = NoFile
    /\ trustScores = [e \in Engines("timed") |-> loadTrust("timed", NoFile)]
    /\ updates = 0
    /\ lastUpdate = NoUpdate
    /\ gridIn = IdleGrid
    /\ gridOut = <<>>
    /\ runPc = "fetch"
    /\ cycle = 1
    /\ siteIdx = 1
    /\ signals = <<>>
    /\ wallets = {"ETHEREUM", "BASE"}
    /\ tasks = <<>>
    /\ sent = {}
    /\ IdleReactive

\* a step of scan t other than the end of its confirmation wait
ScanStep(t) ==
    /\ t \in DOMAIN tasks
    /\ \/ \E b \in IsolationBalances : ScanReturnsBalance(t, b)
       \/ ScanBalanceFails(t)
       \/ \E oks \in IsolationScenarios : ProbeBatch(t, oks)
       \/ TradeSent(t)
       \/ TradeSendFails(t)

\* tx.wait() of scan t settles
WaitStep(t) ==
    /\ t \in DOMAIN tasks
    /\ \E o \in WaitOutcomes : TradeSettles(t, o)

ScanIds == NetworkNames \X (1..Len(AI_SITES))

NextIsolation ==
    \/ \E resp \in IsolationResponses : SiteResponds(resp)
    \/ SiteFails
    \/ \E t \in ScanIds : ScanStep(t)
    \/ \E t \in ScanIds : WaitStep(t)
    \/ RunTasksSettled
    \/ RunTimer

FairIsolation ==
    /\ WF_vars((\E resp \in IsolationResponses : SiteResponds(resp)) \/ SiteFails)
    /\ WF_vars(RunTasksSettled)
    /\ WF_vars(RunTimer)
    /\ \A t \in ScanIds :
          /\ WF_vars(ScanStep(t))
          /\ t[1] # Stalling => WF_vars(WaitStep(t))

SpecIsolation == InitIsolation /\ [][NextIsolation]_vars /\ FairIsolation

-----------------------------------------------------------------------------
(* SpecScan: one scanGrid call in full: a governor with one wallet right   *)
(* after an acquisition that found no signal.  Every probe settles on its  *)
(* own, in any order, with any outcome.                                    *)

ScanBalances ==
    { BigSub(MIN_GAS_RESERVE, BigOf(1)), MIN_GAS_RESERVE,
      BigAdd(MIN_GAS_RESERVE, BigOf(7)), parseEther(1, 0) }

InitScan ==
    /\ variant = "timed"
    /\ trustFile = NoFile
    /\ trustScores = [e \in Engines("timed") |-> loadTrust("timed", NoFile)]
    /\ updates = 0
    /\ lastUpdate = NoUpdate
    /\ gridIn = IdleGrid
    /\ gridOut = <<>>
    /\ runPc = "scanning"
    /\ cycle = 1
    /\ siteIdx = 0
    /\ signals = <<>>
    /\ wallets = {"ETHEREUM"}
    /\ tasks = StartTasks(<<>>)
    /\ sent = {}
    /\ IdleReactive

NextScan ==
    \/ \E t \in DOMAIN tasks, b \in ScanBalances : ScanReturnsBalance(t, b)
    \/ \E t \in DOMAIN tasks : ScanBalanceFails(t)
    \/ \E t \in DOMAIN tasks, i \in TierIds, ok \in BOOLEAN : ProbeSettles(t, i, ok)
    \/ \E t \in DOMAIN tasks, oks \in SUBSET TierIds : ProbeBatch(t, oks)
    \/ \E t \in DOMAIN tasks : TradeSent(t)
    \/ \E t \in DOMAIN tasks : TradeSendFails(t)
    \/ \E t \in DOMAIN tasks, o \in WaitOutcomes : TradeSettles(t, o)
    \/ RunTasksSettled

SpecScan == InitScan /\ [][NextScan]_vars

-----------------------------------------------------------------------------
(* The reactive variant: one worker process per network (src/server.js).   *)

\* MIN_BALANCE_THRESHOLD = parseEther("0.001")
MIN_BALANCE_THRESHOLD == parseEther(1, 3)

\* Object.keys(NETWORKS) of the reactive variant
chainKeys == <<"ETHEREUM", "BASE", "ARBITRUM", "POLYGON">>

ChainNames == {chainKeys[i] : i \in 1..Len(chainKeys)}

\* NETWORKS of the reactive variant: relay, moat, priority and isL2 of each
\* entry, a decimal string as <<mantissa, decimals>>
HybridNetworks ==
    [n \in ChainNames |->
        CASE n = "ETHEREUM" ->
                [relay |-> TRUE, moat |-> <<5, 3>>, priority |-> <<2, 0>>,
                 isL2 |-> FALSE]
          [] n = "BASE" ->
                [relay |-> FALSE, moat |-> <<1, 3>>, priority |-> <<1, 1>>,
                 isL2 |-> TRUE]
          [] n = "ARBITRUM" ->
                [relay |-> FALSE, moat |-> <<2, 3>>, priority |-> <<1, 1>>,
                 isL2 |-> TRUE]
          [] OTHER ->
                [relay |-> FALSE, moat |-> <<1, 3>>, priority |-> <<35, 0>>,
                 isL2 |-> TRUE]]

\* AIEngine.scan's loop body for one fetched text: the first ticker of an
\* accepted text is pushed unless the array holds that ticker already
ScannedSignals(sigs, resp) ==
    IF Accepted(resp) /\ \A i \in 1..Len(sigs) : sigs[i].ticker # resp.tickers[1]
    THEN Append(sigs, [ticker |-> resp.tickers[1],
                       sentiment |-> resp.comparative, source |-> "WEB_AI"])
    ELSE sigs

\* the message handler's "Determine Signal": ticker and source of a trigger
TargetOf(snapshot) ==
    IF Len(snapshot) > 0
    THEN [ticker |-> snapshot[1].ticker, source |-> snapshot[1].source]
    ELSE [ticker |-> "WETH", source |-> "DISCOVERY"]

\* feeData.gasPrice || parseEther("0.01", "gwei"): parseEther reads its first
\* argument only, so the fallback is 0.01 ether
GasPrice(feeGasPrice) == IF feeGasPrice = <<>> THEN parseEther(1, 2) ELSE feeGasPrice

\* parseEther(config.priority, "gwei")
PriorityFee(config) == parseEther(config.priority[1], config.priority[2])

\* (gasPrice * 120n / 100n) + priorityFee
ExecutionFee(gasPrice, config) ==
    BigAdd(BigDivSmall(BigMulSmall(gasPrice, 120), 100), PriorityFee(config))

\* 1500000n * x
TimesGasLimit(x) == BigMulSmall(BigMulSmall(x, 1500), 1000)

\* (1500000n * executionFee) + parseEther(config.moat)
Overhead(gasPrice, config) ==
    BigAdd(TimesGasLimit(ExecutionFee(gasPrice, config)),
           parseEther(config.moat[1], config.moat[2]))

NoTx == [value |-> <<>>, maxFeePerGas |-> <<>>, built |-> FALSE]

StrikeTxAllIn(balance, gasPrice, config) ==
    [value |-> BigSub(balance, TimesGasLimit(ExecutionFee(gasPrice, config))),
     maxFeePerGas |-> ExecutionFee(gasPrice, config), built |-> TRUE]

\* const tx = {..., value: tradeAmount, gasLimit: 1500000n,
\*             maxFeePerGas: executionFee, ...}
StrikeTx(balance, gasPrice, config) ==
    [value |-> BigSub(balance, Overhead(gasPrice, config)),
     maxFeePerGas |-> ExecutionFee(gasPrice, config), built |-> TRUE]

\* fb && chain === "ETHEREUM"
PrivatePath(fb, chain) == fb /\ chain = "ETHEREUM"

SimAcceptedIgnoringRevert(sim) == ~sim.error

\* !sim.error && !sim.firstRevert
SimAccepted(sim) == ~sim.error /\ ~sim.firstRevert

NoSim == [error |-> FALSE, firstRevert |-> FALSE, ran |-> FALSE]

ChainVerdictOnBroadcast(broadcast, wait) == broadcast

\* broadcastTransaction(signed).then(res => {await res.wait(); credit})
\* .catch(penalty): the credit needs both promises to resolve
ChainVerdict(broadcast, wait) == broadcast /\ wait

TriggersWhenIdle(payload) ==
    /\ payload = "notification"
    /\ \A k \in 1..Len(strikes) :
          /\ strikes[k].pc = "done"
          /\ strikes[k].primary \notin {"pending", "sent"}

\* payload.params && payload.params.result
Triggers(payload) == payload = "notification"

\* the message handler up to its first await, on snapshot ACTIVE_AI_SIGNALS
NewStrike(w) ==
    [chain |-> w,
     ticker |-> TargetOf(ACTIVE_AI_SIGNALS).ticker,
     source |-> TargetOf(ACTIVE_AI_SIGNALS).source,
     scans |-> scan.done, lastScan |-> scan.last,
     pc |-> "getBalance", decided |-> FALSE,
     balance |-> <<>>, gasPrice |-> <<>>, funds |-> <<>>, tx |-> NoTx,
     private |-> FALSE, sim |-> NoSim, bundle |-> "none",
     primary |-> "none", raw |-> "none", fault |-> "none", upd |-> <<>>]

MaxTriggers == 2

\* ws.on('message'): a frame arrives on the open stream
Message(w, payload) ==
    /\ workers[w].pc = "open"
    /\ Len(strikes) < MaxTriggers
    /\ IF Triggers(payload)
       THEN strikes' = Append(strikes, NewStrike(w))
       ELSE UNCHANGED strikes
    /\ UNCHANGED <<variant, ledgerVars, gridVars, runVars, workers,
                   ACTIVE_AI_SIGNALS, scan>>

StrikeStep(k, next) ==
    /\ strikes' = [strikes EXCEPT ![k] = next]
    /\ UNCHANGED <<variant, ledgerVars, gridVars, runVars, workers,
                   ACTIVE_AI_SIGNALS, scan>>

\* a step of strike k that calls aiBrain.updateTrust(source, success)
StrikeUpdate(k, next, success) ==
    /\ strikes' = [strikes EXCEPT ![k] = [next EXCEPT !.upd = Append(@, success)]]
    /\ updateTrust(strikes[k].chain, strikes[k].source, success)
    /\ UNCHANGED <<variant, gridVars, runVars, workers, ACTIVE_AI_SIGNALS, scan>>

Awaiting == {"getBalance", "getFeeData", "getBalance2", "getBlockNumber",
             "simulate", "sendBundle", "signing"}

\* the awaited call of strike k rejects: the handler's catch (getBalance) or
\* executeStrikeLogic's catch swallows it
AwaitRejects(k) ==
    /\ strikes[k].pc \in Awaiting
    /\ StrikeStep(k, [strikes[k] EXCEPT !.pc = "done", !.fault = strikes[k].pc])

\* Balance Check: if (balance < MIN_BALANCE_THRESHOLD) return
StrikeBalance(k, b) ==
    /\ strikes[k].pc = "getBalance"
    /\ StrikeStep(k, [strikes[k] EXCEPT
          !.balance = b,
          !.pc = IF BigLt(b, MIN_BALANCE_THRESHOLD) THEN "done" ELSE "getFeeData"])

\* executeStrikeLogic: await provider.getFeeData()
StrikeFeeData(k, g) ==
    /\ strikes[k].pc = "getFeeData"
    /\ StrikeStep(k, [strikes[k] EXCEPT !.gasPrice = GasPrice(g), !.pc = "getBalance2"])

\* executeStrikeLogic: the balance is read, the overhead computed, the
\* transaction built and the channel chosen, up to the next await
StrikeFunds(k, b) ==
    LET s == strikes[k]
        config == HybridNetworks[s.chain]
        private == PrivatePath(workers[s.chain].fb, s.chain)
    IN  /\ s.pc = "getBalance2"
        /\ StrikeStep(k,
              IF BigLt(b, Overhead(s.gasPrice, config))
              THEN [s EXCEPT !.funds = b, !.pc = "done"]
              ELSE [s EXCEPT !.funds = b, !.decided = TRUE,
                             !.tx = StrikeTx(b, s.gasPrice, config),
                             !.private = private,
                             !.pc = IF private THEN "getBlockNumber" ELSE "signing"])

\* await provider.getBlockNumber() + 1
StrikeBlockNumber(k) ==
    /\ strikes[k].pc = "getBlockNumber"
    /\ StrikeStep(k, [strikes[k] EXCEPT !.pc = "simulate"])

\* await fb.simulate(bundle, block) answers sim
StrikeSimulated(k, sim) ==
    /\ strikes[k].pc = "simulate"
    /\ StrikeStep(k, [strikes[k] EXCEPT
          !.sim = [error |-> sim.error, firstRevert |-> sim.firstRevert, ran |-> TRUE],
          !.pc = IF SimAccepted(sim) THEN "sendBundle" ELSE "done"])

\* await fb.sendBundle(bundle, block) resolves: the credit follows at once
StrikeBundleSent(k) ==
    /\ strikes[k].pc = "sendBundle"
    /\ StrikeUpdate(k, [strikes[k] EXCEPT !.bundle = "sent", !.pc = "done"], TRUE)

\* await wallet.signTransaction(tx) resolves: both channels are started and
\* executeStrikeLogic returns
StrikeSigned(k) ==
    /\ strikes[k].pc = "signing"
    /\ StrikeStep(k, [strikes[k] EXCEPT
          !.primary = "pending", !.raw = "pending", !.pc = "done"])

\* provider.broadcastTransaction(signed) resolves: TX SENT, res.wait() starts
PrimaryAccepted(k) ==
    /\ strikes[k].primary = "pending"
    /\ StrikeStep(k, [strikes[k] EXCEPT !.primary = "sent"])

\* provider.broadcastTransaction(signed) rejects
PrimaryRejected(k) ==
    /\ strikes[k].primary = "pending"
    /\ StrikeUpdate(k, [strikes[k] EXCEPT !.primary = "rejected"],
                    ChainVerdict(FALSE, FALSE))

\* res.wait() resolves (ok) or rejects
WaitSettles(k, ok) ==
    /\ strikes[k].primary = "sent"
    /\ StrikeUpdate(k, [strikes[k] EXCEPT
                           !.primary = IF ok THEN "confirmed" ELSE "failed"],
                    ChainVerdict(TRUE, ok))

\* the direct fetch(eth_sendRawTransaction) resolves (ok) or rejects
RawSettles(k, ok) ==
    /\ strikes[k].raw = "pending"
    /\ StrikeStep(k, [strikes[k] EXCEPT !.raw = IF ok THEN "ok" ELSE "failed"])

MaxScans == 2

\* setInterval(..., 5000) fires: Brain.scan() starts
ScanTick ==
    /\ scan.pc = "idle"
    /\ scan.done < MaxScans
    /\ scan' = [scan EXCEPT !.pc = "fetch", !.siteIdx = 1, !.signals = <<>>]
    /\ UNCHANGED <<variant, ledgerVars, gridVars, runVars, workers,
                   ACTIVE_AI_SIGNALS, strikes>>

\* Brain.scan(): the fetch of AI_SITES[siteIdx] ended with signals sigs;
\* after the last site the interval callback stores a non-empty result
AfterScanSite(sigs) ==
    /\ IF scan.siteIdx < Len(AI_SITES)
       THEN /\ scan' = [scan EXCEPT !.siteIdx = @ + 1, !.signals = sigs]
            /\ UNCHANGED ACTIVE_AI_SIGNALS
       ELSE /\ scan' = [pc |-> "idle", siteIdx |-> 0, signals |-> <<>>,
                        done |-> scan.done + 1, last |-> sigs]
            /\ ACTIVE_AI_SIGNALS' =
                  IF Len(sigs) > 0 THEN sigs ELSE ACTIVE_AI_SIGNALS
    /\ UNCHANGED <<variant, ledgerVars, gridVars, runVars, workers, strikes>>

ScanSiteResponds(resp) ==
    /\ scan.pc = "fetch"
    /\ AfterScanSite(ScannedSignals(scan.signals, resp))

ScanSiteFails ==
    /\ scan.pc = "fetch"
    /\ AfterScanSite(scan.signals)

-----------------------------------------------------------------------------
(* The life of the worker processes: the primary's forks, and in each      *)
(* worker initializeHybridEngine with its ping, its relay session and its  *)
(* stream.                                                                 *)

\* a network the primary has not forked a worker for yet
NotForked ==
    [pc |-> "none", fb |-> FALSE, pings |-> 0, closes |-> 0, subs |-> 0,
     forks |-> 0]

\* cluster.fork({TARGET_CHAIN}): runWorkerEngine runs up to the first await
\* of executeTestPing
ForkedWorker(forks) ==
    [pc |-> "ping", fb |-> FALSE, pings |-> 0, closes |-> 0, subs |-> 0,
     forks |-> forks]

\* a worker past initializeHybridEngine: stream open, subscription sent
OpenWorker(fb) ==
    [pc |-> "open", fb |-> fb, pings |-> 0, closes |-> 0, subs |-> 1,
     forks |-> 1]

WorkerStep(w, next) ==
    /\ workers' = [workers EXCEPT ![w] = next]
    /\ UNCHANGED <<variant, ledgerVars, gridVars, runVars, ACTIVE_AI_SIGNALS,
                   scan, strikes>>

\* the primary: chainKeys.forEach(chainName => cluster.fork(...))
ForkWorkers ==
    /\ \A n \in DOMAIN workers : workers[n].pc = "none"
    /\ workers' = [n \in DOMAIN workers |->
                      IF n \in ChainNames
                      THEN ForkedWorker(workers[n].forks + 1) ELSE workers[n]]
    /\ UNCHANGED <<variant, ledgerVars, gridVars, runVars, ACTIVE_AI_SIGNALS,
                   scan, strikes>>

\* !config.isL2 && config.relay
RelayCapable(config) == ~config.isL2 /\ config.relay

MaxPings == 2

RECURSIVE SumFrom(_, _)
SumFrom(count, i) ==
    IF i > Len(chainKeys) THEN 0
    ELSE (IF chainKeys[i] \in DOMAIN workers THEN count[chainKeys[i]] ELSE 0)
         + SumFrom(count, i + 1)

\* ping transactions sent by the workers alive, streams they lost
TotalPings == SumFrom([n \in DOMAIN workers |-> workers[n].pings], 1)
TotalCloses == SumFrom([n \in DOMAIN workers |-> workers[n].closes], 1)

\* executeTestPing returns: the ping transaction was sent, or the balance was
\* low or a call failed; then the relay session is set up, or on a network
\* without relay the stream is created
PingEnds(w, pinged) ==
    /\ workers[w].pc = "ping"
    /\ pinged => TotalPings < MaxPings
    /\ WorkerStep(w, [workers[w] EXCEPT
          !.pings = IF pinged THEN @ + 1 ELSE @,
          !.pc = IF RelayCapable(HybridNetworks[w]) THEN "flashbots"
                 ELSE "connecting"])

\* FlashbotsBundleProvider.create resolves (a session) or rejects (flashbots
\* stays null); new WebSocket(wssUrl) follows
FlashbotsSettles(w, created) ==
    /\ workers[w].pc = "flashbots"
    /\ WorkerStep(w, [workers[w] EXCEPT !.fb = created, !.pc = "connecting"])

\* ws.on('open'): the subscription is sent
StreamOpens(w) ==
    /\ workers[w].pc = "connecting"
    /\ WorkerStep(w, [workers[w] EXCEPT !.pc = "open", !.subs = 1])

MaxCloses == 2

TimerArmedWithLimit(worker) == worker.pc = "closed" /\ worker.closes < 2

\* ws.on('close', () => setTimeout(..., 5000)): set on every close
TimerArmed(worker) == worker.pc = "closed"

\* the stream fails while connecting or open: ws.on('error') terminates it,
\* and its close, like a plain close, sets the reconnection timer
StreamEnds(w) ==
    /\ workers[w].pc \in {"connecting", "open"}
    /\ TotalCloses < MaxCloses
    /\ WorkerStep(w, [workers[w] EXCEPT !.pc = "closed", !.closes = @ + 1,
                                        !.subs = 0])

\* the 5 s timer fires: initializeHybridEngine(name, config, aiBrain) again,
\* up to the first await of executeTestPing
ReconnectTimer(w) ==
    /\ TimerArmed(workers[w])
    /\ WorkerStep(w, [workers[w] EXCEPT !.pc = "ping", !.fb = FALSE])

\* the worker process dies; the primary's 'exit' handler logs it
WorkerExits(w) ==
    /\ workers[w].pc \notin {"none", "exited"}
    /\ WorkerStep(w, [NotForked EXCEPT !.pc = "exited", !.forks = workers[w].forks])

-----------------------------------------------------------------------------
(* SpecCluster: the primary and its four workers, each from its fork       *)
(* through its connections; a pending call, timer or handshake is          *)
(* eventually answered, a process exit may or may not happen.              *)

InitCluster ==
    /\ variant = "reactive"
    /\ trustFile = NoFile
    /\ trustScores = [e \in ChainNames |-> loadTrust("reactive", NoFile)]
    /\ updates = 0
    /\ lastUpdate = NoUpdate
    /\ gridIn = IdleGrid
    /\ gridOut = <<>>
    /\ IdleRun
    /\ workers = [n \in ChainNames |-> NotForked]
    /\ ACTIVE_AI_SIGNALS = <<>>
    /\ scan = NoScan
    /\ strikes = <<>>

NextCluster ==
    \/ ForkWorkers
    \/ \E w \in DOMAIN workers, pinged \in BOOLEAN : PingEnds(w, pinged)
    \/ \E w \in DOMAIN workers, created \in BOOLEAN : FlashbotsSettles(w, created)
    \/ \E w \in DOMAIN workers : StreamOpens(w)
    \/ \E w \in DOMAIN workers : StreamEnds(w)
    \/ \E w \in DOMAIN workers : ReconnectTimer(w)
    \/ \E w \in DOMAIN workers : WorkerExits(w)

FairCluster ==
    /\ WF_vars(ForkWorkers)
    /\ \A w \in ChainNames :
          /\ WF_vars(\E pinged \in BOOLEAN : PingEnds(w, pinged))
          /\ WF_vars(\E created \in BOOLEAN : FlashbotsSettles(w, created))
          /\ WF_vars(StreamOpens(w) \/ StreamEnds(w))
          /\ WF_vars(ReconnectTimer(w))

SpecCluster == InitCluster /\ [][NextCluster]_vars /\ FairCluster

-----------------------------------------------------------------------------
(* SpecReactive: one worker whose stream is open and the strikes its       *)
(* notifications start, on the snapshot its scans left.                    *)

\* the signal a scan makes of a text naming $PEPE with comparative 0.3
PepeSignal == [ticker |-> "PEPE", sentiment |-> 30, source |-> "WEB_AI"]

\* before the first scan, and after one scan that found a signal
ScansSoFar ==
    { NoScan,
      [pc |-> "idle", siteIdx |-> 0, signals |-> <<>>, done |-> 1,
       last |-> <<PepeSignal>>] }

TriggerBalances == {BigSub(MIN_BALANCE_THRESHOLD, BigOf(1)), MIN_BALANCE_THRESHOLD}

\* feeData.gasPrice: null, or 30 gwei
FeeGasPrices == {<<>>, BigMulPow10(BigOf(30), 9)}

\* the balance executeStrikeLogic reads: short of the overhead, exactly the
\* overhead, one ether above it
StrikeBalances(k) ==
    LET overhead == Overhead(strikes[k].gasPrice, HybridNetworks[strikes[k].chain])
    IN  {parseEther(1, 0), overhead, BigAdd(overhead, parseEther(1, 0))}

SimResults == [error : BOOLEAN, firstRevert : BOOLEAN]

Payloads == {"notification", "ack", "garbage"}

InitReactive ==
    /\ variant = "reactive"
    /\ trustFile = NoFile
    /\ \E w \in {"ETHEREUM", "BASE"}, fb \in BOOLEAN :
          /\ fb => (~HybridNetworks[w].isL2 /\ HybridNetworks[w].relay)
          /\ workers = [n \in {w} |-> OpenWorker(fb)]
          /\ trustScores = [e \in {w} |-> loadTrust("reactive", NoFile)]
    /\ updates = 0
    /\ lastUpdate = NoUpdate
    /\ gridIn = IdleGrid
    /\ gridOut = <<>>
    /\ IdleRun
    /\ scan \in ScansSoFar
    /\ ACTIVE_AI_SIGNALS = scan.last
    /\ strikes = <<>>

NextReactive ==
    \/ \E w \in DOMAIN workers, p \in Payloads : Message(w, p)
    \/ \E k \in DOMAIN strikes : AwaitRejects(k)
    \/ \E k \in DOMAIN strikes, b \in TriggerBalances : StrikeBalance(k, b)
    \/ \E k \in DOMAIN strikes, g \in FeeGasPrices : StrikeFeeData(k, g)
    \/ \E k \in DOMAIN strikes :
          /\ strikes[k].pc = "getBalance2"
          /\ \E b \in StrikeBalances(k) : StrikeFunds(k, b)
    \/ \E k \in DOMAIN strikes : StrikeBlockNumber(k)
    \/ \E k \in DOMAIN strikes, sim \in SimResults : StrikeSimulated(k, sim)
    \/ \E k \in DOMAIN strikes : StrikeBundleSent(k)
    \/ \E k \in DOMAIN strikes : StrikeSigned(k)
    \/ \E k \in DOMAIN strikes : PrimaryAccepted(k)
    \/ \E k \in DOMAIN strikes : PrimaryRejected(k)
    \/ \E k \in DOMAIN strikes, ok \in BOOLEAN : WaitSettles(k, ok)
    \/ \E k \in DOMAIN strikes, ok \in BOOLEAN : RawSettles(k, ok)

SpecReactive == InitReactive /\ [][NextReactive]_vars

-----------------------------------------------------------------------------
(* SpecSnapshot: the background scans of one worker and the triggers that  *)
(* read the snapshot; a trigger ends at its balance check.                 *)

ScanResponses ==
    { [tickers |-> <<"PEPE">>, comparative |-> 30],
      [tickers |-> <<"DOGE", "PEPE">>, comparative |-> 30],
      [tickers |-> <<"PEPE">>, comparative |-> 10] }

InitSnapshot ==
    /\ variant = "reactive"
    /\ trustFile = NoFile
    /\ workers = [n \in {"BASE"} |-> OpenWorker(FALSE)]
    /\ trustScores = [e \in {"BASE"} |-> loadTrust("reactive", NoFile)]
    /\ updates = 0
    /\ lastUpdate = NoUpdate
    /\ gridIn = IdleGrid
    /\ gridOut = <<>>
    /\ IdleRun
    /\ scan = NoScan
    /\ ACTIVE_AI_SIGNALS = <<>>
    /\ strikes = <<>>

NextSnapshot ==
    \/ ScanTick
    \/ \E resp \in ScanResponses : ScanSiteResponds(resp)
    \/ ScanSiteFails
    \/ \E w \in DOMAIN workers, p \in Payloads : Message(w, p)
    \/ \E k \in DOMAIN strikes : AwaitRejects(k)
    \/ \E k \in DOMAIN strikes :
          StrikeBalance(k, BigSub(MIN_BALANCE_THRESHOLD, BigOf(1)))

SpecSnapshot == InitSnapshot /\ [][NextSnapshot]_vars

-----------------------------------------------------------------------------
(* Properties of the trust ledger.                                         *)

InRange(w) == Num(1, 10) <= w /\ w <= Num(99, 100)

\* C1: after every sequence of updateTrust calls, every weight held by an
\* engine, and every weight in the file it wrote, lies in [0.10, 0.99].
C1_TrustWithinBounds ==
    /\ \A e \in DOMAIN trustScores : \A s \in DOMAIN trustScores[e] :
          InRange(trustScores[e][s])
    /\ (trustFile.exists /\ WellFormed(trustFile.text)) =>
          \A s \in DOMAIN JSONparse(trustFile.text) :
             InRange(JSONparse(trustFile.text)[s])

\* a failure whose product fell below 0.1 was stored as 0.1
C1_Witness ==
    /\ updates > 0
    /\ ~lastUpdate.success
    /\ NumMul(lastUpdate.before, 90, 100) < Num(1, 10)
    /\ trustScores[lastUpdate.engine][lastUpdate.source] = Num(1, 10)

\* C2: updateTrust(source, true) never lowers the weight the call started
\* from (the stored one, or 0.5 for an absent source), and
\* updateTrust(source, false) never raises it.
C2_TrustMonotone ==
    [][updates' = updates + 1 =>
          LET u == lastUpdate'
              now == trustScores'[u.engine][u.source]
          IN  /\ u.success => now >= u.before
              /\ ~u.success => now <= u.before]_vars

\* a credit of an absent source (0.5 assumed) and then of a weight at the cap
C2_Witness ==
    /\ updates > 0
    /\ lastUpdate.success
    /\ lastUpdate.before = Num(99, 100)
    /\ trustScores[lastUpdate.engine][lastUpdate.source] = Num(99, 100)
    /\ \E e \in DOMAIN trustScores :
          "DISCOVERY" \in DOMAIN trustScores[e]
             /\ trustScores[e]["DISCOVERY"] = NumMul(Num(5, 10), 105, 100)

-----------------------------------------------------------------------------
(* Properties of the planner and the selector.                             *)

MaxOf(S) == CHOOSE x \in S : \A y \in S : y <= x

\* C7: with at least one fulfilled probe the selector takes a fulfilled tier
\* of the largest amount among the fulfilled ones, and the tier it takes is
\* fixed by the set of outcomes: the last fulfilled tier of the ladder.
C7_SelectorPicksLargest ==
    (gridOut # <<>> /\ gridOut.selected /\ gridIn.oks # {}) =>
        /\ \E i \in gridIn.oks : gridOut.bestTrade = gridOut.tiers[i]
        /\ \A j \in gridIn.oks :
              BigLe(gridOut.tiers[j].amount, gridOut.bestTrade.amount)
        /\ gridOut.bestTrade = gridOut.tiers[MaxOf(gridIn.oks)]

\* a selection among several fulfilled tiers, a rejected tier above them,
\* two of the fulfilled ones of equal amount
C7_Witness ==
    /\ gridOut # <<>>
    /\ gridOut.selected
    /\ gridIn.oks = {1, 2, 4}
    /\ gridOut.tiers[1].amount = gridOut.tiers[2].amount
    /\ BigLt(gridOut.tiers[2].amount, gridOut.tiers[4].amount)
    /\ gridOut.bestTrade.label = "LARGE (75%)"

\* C9: for positive safeCapital the seven amounts never decrease along the
\* ladder, and the five non-flash amounts do not exceed safeCapital.
C9_LadderMonotone ==
    (gridOut # <<>> /\ gridOut.safeCapital # <<>>) =>
        /\ \A i \in TierIds : i + 1 \in TierIds =>
              BigLe(gridOut.tiers[i].amount, gridOut.tiers[i + 1].amount)
        /\ \A i \in TierIds : ~gridOut.tiers[i].isFlash =>
              BigLe(gridOut.tiers[i].amount, gridOut.safeCapital)

\* a ladder of a few wei: equal neighbours, MAX equal to safeCapital and a
\* flash tier above it
C9_Witness ==
    /\ gridOut # <<>>
    /\ gridOut.safeCapital = BigOf(7)
    /\ gridOut.tiers[1].amount = <<>>
    /\ gridOut.tiers[2].amount = BigOf(1)
    /\ gridOut.tiers[5].amount = BigOf(7)
    /\ gridOut.tiers[7].amount = BigOf(700)

\* C10: every amount is floor(safeCapital * percent / 100), that is
\* amount * 100 <= safeCapital * percent < (amount + 1) * 100, with
\* safeCapital = balance - reserve; the first five tiers are non-flash and
\* the last two flash; safeCapital 998,000,000 gives MICRO 99,800,000,
\* MAX 998,000,000 and LEVERAGE 9,980,000,000.
C10_AmountIsTruncatedShare ==
    gridOut # <<>> =>
        /\ BigAdd(gridOut.safeCapital, MIN_GAS_RESERVE) = gridIn.balance
        /\ \A i \in TierIds :
              LET amount == gridOut.tiers[i].amount
                  product == BigMulSmall(gridOut.safeCapital, gridPoints[i].percent)
              IN  /\ BigLe(BigMulSmall(amount, 100), product)
                  /\ BigLt(product, BigMulSmall(BigAdd(amount, BigOf(1)), 100))
                  /\ gridOut.tiers[i].isFlash = (i > 5)
        /\ gridOut.safeCapital = BigOf(998000000) =>
              /\ gridOut.tiers[1].label = "MICRO (10%)"
              /\ gridOut.tiers[1].amount = BigOf(99800000)
              /\ gridOut.tiers[5].label = "MAX (100%)"
              /\ gridOut.tiers[5].amount = BigOf(998000000)
              /\ gridOut.tiers[6].label = "LEVERAGE (10x)"
              /\ gridOut.tiers[6].amount = BigMulSmall(BigOf(998000000), 10)

\* the ladder of the worked example, and one where truncation drops a part
C10_Witness ==
    /\ gridOut # <<>>
    /\ gridOut.safeCapital = BigOf(998000000)
    /\ gridOut.tiers[6].amount = <<0, 8000, 99>>
    /\ gridOut.tiers[7].amount = <<0, 0, 998>>

-----------------------------------------------------------------------------
(* Properties of a scan and of a cycle of the governor.                    *)

TxsOf(net) == {x \in sent : x.net = net}

\* C3: a scan builds tiers only when balance - reserve is strictly positive;
\* with the balance at or below the reserve it ends with no tiers, no probes
\* and no execution.
C3_TiersOnlyOnPositiveCapital ==
    \A t \in DOMAIN tasks :
        BigLe(tasks[t].balance, MIN_GAS_RESERVE) =>
            /\ tasks[t].tiers = <<>>
            /\ tasks[t].probes = NoProbes
            /\ tasks[t].pc \notin {"probing", "sending", "waiting"}
            /\ tasks[t].txs = 0

\* C4: the signals of one acquisition hold at most one entry per ticker, so
\* no ticker is scanned twice on one network in one cycle.
C4_OneSignalPerTicker ==
    /\ \A i, j \in 1..Len(signals) :
          i # j => signals[i].ticker # signals[j].ticker
    /\ \A t, u \in DOMAIN tasks :
          (t # u /\ t[1] = u[1]) => tasks[t].ticker # tasks[u].ticker

\* C5 as stated: at most one transaction per network in one cycle.
C5_OneTxPerNetwork == \A net \in NetworkNames : Cardinality(TxsOf(net)) <= 1

\* C5 as amended: at most one transaction per scan, hence per network and
\* cycle at most one per acquired signal (one when there is no signal).
C5_OneTxPerScan ==
    /\ \A t \in DOMAIN tasks :
          /\ tasks[t].txs <= 1
          /\ Cardinality({x \in sent : x.net = t[1] /\ x.task = t[2]}) <= 1
    /\ \A net \in NetworkNames :
          Cardinality(TxsOf(net)) <= Max(1, Len(signals))
    /\ \A x \in sent : x.cycle = cycle

\* two signals of different tickers, one transaction sent for each
C5_Witness ==
    /\ Len(signals) = 2
    /\ signals[1].ticker # signals[2].ticker
    /\ Cardinality(TxsOf("ETHEREUM")) = 2
    /\ \A t \in DOMAIN tasks : tasks[t].pc = "done"

\* C6: when all seven probes of a scan are rejected the scan is over with no
\* tier chosen, no transaction sent and the ledger, in memory and in the
\* file, as it was.
C6_AllRejectedNoExecution ==
    \A t \in DOMAIN tasks :
        (\A i \in TierIds : tasks[t].probes[i] = "rejected") =>
            /\ tasks[t].pc = "done"
            /\ tasks[t].bestTrade = NoTier
            /\ tasks[t].txs = 0
            /\ sent = {}
            /\ updates = 0
            /\ trustScores = [e \in Engines("timed") |-> TimedDefaultTrust]
            /\ trustFile = NoFile

\* a scan whose seven probes were rejected, and the cycle it was part of over
C6_Witness ==
    /\ runPc = "sleep"
    /\ \E t \in DOMAIN tasks :
          /\ tasks[t].tiers # <<>>
          /\ \A i \in TierIds : tasks[t].probes[i] = "rejected"

Settled(status) == status \in {"fulfilled", "rejected"}

\* C8: a scan issues its seven probes together; a probe that is pending can
\* be fulfilled whatever became of the others; a settled probe keeps its
\* outcome; and the scan selects, executes or ends only with all seven
\* settled.
C8_FanOutFanIn ==
    /\ [](\A t \in DOMAIN tasks :
            /\ tasks[t].pc = "probing" =>
                  \A i \in TierIds : tasks[t].probes[i] # "none"
            /\ \A i \in TierIds : tasks[t].probes[i] = "pending" =>
                  ENABLED ProbeSettles(t, i, TRUE)
            /\ (tasks[t].tiers # <<>> /\ tasks[t].pc # "probing") =>
                  \A i \in TierIds : Settled(tasks[t].probes[i]))
    /\ [][\A t \in DOMAIN tasks : \A i \in TierIds :
            Settled(tasks[t].probes[i]) =>
                tasks'[t].probes[i] = tasks[t].probes[i]]_vars

\* six rejected probes, the seventh fulfilled afterwards and selected
C8_Witness ==
    \E t \in DOMAIN tasks :
        /\ tasks[t].pc = "sending"
        /\ \A i \in 1..6 : tasks[t].probes[i] = "rejected"
        /\ tasks[t].probes[7] = "fulfilled"
        /\ tasks[t].bestTrade.label = "WHALE (100x)"

-----------------------------------------------------------------------------
(* Properties of a strike of the reactive variant.                         *)

\* C11: a strike that went out on the public path has no trust update while
\* its primary broadcast or the wait for its confirmation is pending, and
\* exactly one once that settled: a credit when the broadcast resolved and
\* the confirmation arrived, a penalty when either was rejected; a step of
\* the raw channel leaves the ledger and the strike's updates as they were.
C11_OneUpdatePerPublicTrade ==
    /\ [](\A k \in DOMAIN strikes :
            LET s == strikes[k]
            IN  s.primary # "none" =>
                   /\ ~s.private /\ s.bundle = "none" /\ s.raw # "none"
                   /\ s.primary \in {"pending", "sent"} => s.upd = <<>>
                   /\ s.primary = "confirmed" => s.upd = <<TRUE>>
                   /\ s.primary \in {"rejected", "failed"} => s.upd = <<FALSE>>)
    /\ [][\A k \in DOMAIN strikes :
            strikes'[k].raw # strikes[k].raw =>
               /\ UNCHANGED ledgerVars
               /\ \A j \in DOMAIN strikes : strikes'[j].upd = strikes[j].upd]_vars

\* a confirmed strike whose raw call failed, credited once, next to one whose
\* raw call went through while the confirmation failed, penalized once
C11_Witness ==
    /\ Len(strikes) = 2
    /\ strikes[1].primary = "confirmed" /\ strikes[1].raw = "failed"
    /\ strikes[1].upd = <<TRUE>>
    /\ strikes[2].primary = "failed" /\ strikes[2].raw = "ok"
    /\ strikes[2].upd = <<FALSE>>
    /\ updates = 2

\* C12: a strike that failed after the trade was decided (signing, block
\* number, simulation call, bundle submission, broadcast or confirmation)
\* has penalized its source, once.
C12_EveryFailurePenalizes ==
    \A k \in DOMAIN strikes :
        LET s == strikes[k]
        IN  /\ (s.decided /\ s.fault # "none") => s.upd = <<FALSE>>
            /\ s.primary \in {"rejected", "failed"} => s.upd = <<FALSE>>

\* C13: a bundle is submitted only after a simulation with no error and no
\* first revert; after a rejected simulation the strike is over with no
\* bundle, no public broadcast and no trust update; a decided strike takes
\* the private path exactly when its network is ETHEREUM and the worker has
\* a relay session, the public path otherwise, and never both.
C13_PrivatePathGated ==
    \A k \in DOMAIN strikes :
        LET s == strikes[k]
        IN  /\ (s.bundle # "none" \/ s.pc = "sendBundle") =>
                  s.sim.ran /\ ~s.sim.error /\ ~s.sim.firstRevert
            /\ (s.sim.ran /\ (s.sim.error \/ s.sim.firstRevert)) =>
                  /\ s.pc = "done"
                  /\ s.bundle = "none" /\ s.primary = "none" /\ s.raw = "none"
                  /\ s.upd = <<>>
            /\ s.decided =>
                  (s.private <=> (s.chain = "ETHEREUM" /\ workers[s.chain].fb))
            /\ s.private => s.primary = "none" /\ s.raw = "none"
            /\ ~s.private =>
                  /\ ~s.sim.ran /\ s.bundle = "none"
                  /\ s.pc \notin {"getBlockNumber", "simulate", "sendBundle"}

\* on ETHEREUM with a relay session: one strike dropped for a first revert,
\* another whose bundle went out after a clean simulation
C13_Witness ==
    /\ Len(strikes) = 2
    /\ strikes[1].sim.ran /\ strikes[1].sim.firstRevert /\ ~strikes[1].sim.error
    /\ strikes[1].pc = "done" /\ strikes[1].upd = <<>>
    /\ strikes[2].bundle = "sent" /\ strikes[2].upd = <<TRUE>>

\* ETHEREUM without a relay session: the strike went out on the public path
C13_WitnessFallback ==
    \E k \in DOMAIN strikes :
        /\ strikes[k].chain = "ETHEREUM" /\ ~workers["ETHEREUM"].fb
        /\ strikes[k].primary = "sent"

Unsettled(s) == s.primary \in {"pending", "sent"}

\* C20: nothing serializes the triggers of a worker: whatever its earlier
\* strikes are doing, a notification on the open stream starts a new run of
\* the handler.
C20_NoMutualExclusion ==
    \A w \in DOMAIN workers :
        (workers[w].pc = "open" /\ Len(strikes) < MaxTriggers) =>
            ENABLED (Message(w, "notification") /\ Len(strikes') = Len(strikes) + 1)

\* two strikes of one worker that passed the balance check on the same
\* reading, both submitted, neither settled
C20_Witness ==
    /\ Len(strikes) = 2
    /\ strikes[1].chain = strikes[2].chain
    /\ strikes[1].balance = strikes[2].balance
    /\ strikes[1].funds = strikes[2].funds
    /\ Unsettled(strikes[1]) /\ Unsettled(strikes[2])

-----------------------------------------------------------------------------
(* Properties of the planning and the attribution of the timed variant.    *)

ScansOf(net) == {t \in DOMAIN tasks : t[1] = net}

C18_UpdateGoesToOriginatingSource ==
    [][updates' = updates + 1 =>
          lastUpdate'.source =
              IF Len(signals) = 0 THEN "DISCOVERY" ELSE "WEB_AI"]_vars

\* the reactive handler: ticker and source of a strike are those of the first
\* signal of the snapshot it read, or the default pair
C18_ReactiveTargetConsistent ==
    \A k \in DOMAIN strikes :
        \/ strikes[k].ticker = "WETH" /\ strikes[k].source = "DISCOVERY"
        \/ strikes[k].ticker # "WETH" /\ strikes[k].source = "WEB_AI"

-----------------------------------------------------------------------------
(* Properties of the persistence and of the snapshot.                      *)

\* C17: once updateTrust has been called, the file is the text of the whole
\* map of the engine that called it last, every source included, and reads
\* back as that map, whatever the other engines hold.
C17_WriteThrough ==
    updates > 0 =>
        /\ trustFile.exists
        /\ WellFormed(trustFile.text)
        /\ trustFile = FileOf(trustScores[lastUpdate.engine])
        /\ JSONparse(trustFile.text) = trustScores[lastUpdate.engine]

\* two workers: the last writer's map of two sources is in the file, entry
\* for entry, and the other worker holds a different map
C17_Witness ==
    /\ updates > 1
    /\ DOMAIN trustScores[lastUpdate.engine] = {"WEB_AI", "DISCOVERY"}
    /\ Len(trustFile.text) = 2
    /\ lastUpdate.source = "DISCOVERY"
    /\ JSONparse(trustFile.text)["WEB_AI"] = trustScores[lastUpdate.engine]["WEB_AI"]
    /\ \E e \in DOMAIN trustScores :
          /\ e # lastUpdate.engine
          /\ "WEB_AI" \in DOMAIN trustScores[e]
          /\ trustScores[e]["WEB_AI"] # trustScores[lastUpdate.engine]["WEB_AI"]

\* C19: the snapshot is the result of the last completed scan, so a trigger
\* that follows a scan which returned nothing targets the default ticker.
C19_SnapshotFollowsScan ==
    /\ scan.done > 0 => ACTIVE_AI_SIGNALS = scan.last
    /\ \A k \in DOMAIN strikes :
          (strikes[k].scans > 0 /\ strikes[k].lastScan = <<>>) =>
              /\ strikes[k].ticker = "WETH"
              /\ strikes[k].source = "DISCOVERY"

-----------------------------------------------------------------------------
(* Properties of the workers' life.                                        *)

\* C15: a worker whose stream ended (error or close) creates a new stream
\* unless its process dies first, however many streams it lost before, and a
\* stream that opens has its subscription sent.
C15_ReconnectsForever ==
    /\ \A w \in ChainNames :
          (workers[w].pc = "closed") ~> (workers[w].pc \in {"connecting", "exited"})
    /\ [](\A w \in ChainNames : workers[w].pc = "open" => workers[w].subs = 1)

\* a worker that lost as many streams as the environment will take from it
\* and is connected and subscribed again
C15_Witness ==
    \E w \in ChainNames :
        /\ workers[w].closes = MaxCloses
        /\ workers[w].pc = "open"
        /\ workers[w].subs = 1

\* C16: once the primary has forked, every network has had exactly one
\* worker started for it at a time, the exit of a worker changes no other
\* worker, and a worker that exited is eventually replaced.
C16_WorkersReplaced ==
    /\ [](\A w \in ChainNames : workers[w].pc # "none" => workers[w].forks >= 1)
    /\ [][\A w \in ChainNames :
            (workers[w].pc # "exited" /\ workers'[w].pc = "exited") =>
                \A o \in ChainNames \ {w} : workers'[o] = workers[o]]_vars
    /\ \A w \in ChainNames :
          (workers[w].pc = "exited") ~> (workers[w].pc \notin {"none", "exited"})

\* C23: a worker sends its diagnostic ping transaction at most once, however
\* many times its stream was lost and set up again.
C23_PingOnce == \A w \in ChainNames : workers[w].pings <= 1

-----------------------------------------------------------------------------
(* Properties of the strike transaction.                                   *)

Submitted(s) == s.primary # "none" \/ s.raw # "none" \/ s.bundle # "none"

Moat(chain) == parseEther(HybridNetworks[chain].moat[1], HybridNetworks[chain].moat[2])

\* C22: a transaction is built exactly when the balance the strike read is
\* not below the overhead; its value is that balance less the overhead (so
\* not negative), value + 1500000 * maxFeePerGas is that balance less the
\* moat of the network, hence within the balance; and nothing is submitted
\* without a built transaction.
C22_StrikeWithinBalance ==
    \A k \in DOMAIN strikes :
        LET s == strikes[k]
            overhead == Overhead(s.gasPrice, HybridNetworks[s.chain])
            cost == BigAdd(s.tx.value, TimesGasLimit(s.tx.maxFeePerGas))
        IN  /\ s.tx.built <=> s.decided
            /\ Submitted(s) => s.tx.built
            /\ s.tx.built =>
                  /\ BigLe(overhead, s.funds)
                  /\ BigAdd(s.tx.value, overhead) = s.funds
                  /\ BigAdd(cost, Moat(s.chain)) = s.funds
                  /\ BigLe(cost, s.funds)
            /\ (s.pc = "done" /\ s.fault = "none" /\ ~s.decided /\ s.gasPrice # <<>>) =>
                  BigLt(s.funds, overhead)

\* two submitted strikes: one of value 0, on a balance equal to the overhead
\* computed from the fallback gas price, and one of value one ether
C22_Witness ==
    /\ Len(strikes) = 2
    /\ Submitted(strikes[1]) /\ Submitted(strikes[2])
    /\ strikes[1].gasPrice = parseEther(1, 2)
    /\ strikes[1].tx.value = <<>>
    /\ strikes[2].tx.value = parseEther(1, 0)

\* a strike that read a balance of one ether, short of the overhead
C22_WitnessSkipped ==
    \E k \in DOMAIN strikes :
        /\ strikes[k].funds = parseEther(1, 0)
        /\ strikes[k].pc = "done"
        /\ ~strikes[k].tx.built

-----------------------------------------------------------------------------
(* Properties of the isolation between the networks of the timed variant.  *)

\* C21: in every cycle each network with a wallet has its scan started, a
\* scan that is stuck or failed leaves the scans of the other networks able
\* to finish, and every cycle is followed by the next one even when a
\* confirmation on one network never comes.
C21_NetworksIsolated ==
    /\ [](runPc = "scanning" =>
            \A net \in wallets : \E t \in ScansOf(net) : tasks[t].pc # "none")
    /\ \A c \in 1..(MaxCycles - 1) : (cycle = c) ~> (cycle = c + 1)

\* the part that holds: while the scan of one network waits for its
\* confirmation, the scan of the other network of the same cycle runs to
\* its end, trust update included
C21_SameCycleIsolated ==
    [][\A t \in DOMAIN tasks :
          (tasks[t].pc = "waiting" /\ tasks'[t].pc = "waiting") =>
              \A u \in DOMAIN tasks \ {t} :
                  tasks[u].pc = "getBalance" => ENABLED ScanStep(u)]_vars

C21_WitnessSameCycle ==
    /\ \E t \in ScansOf("ETHEREUM") : tasks[t].pc = "waiting"
    /\ \E u \in ScansOf("BASE") : tasks[u].pc = "done" /\ tasks[u].txs = 1
    /\ updates = 1

====
